---- MODULE Spec2Model ----
(***************************************************************************)
(* State-machine model of instruktorji.py: the registration form handler   *)
(* (oddaj), the SQLite-backed store (init_db, add_vnos, all_vnosi,         *)
(* delete_vnos), the lazily connected Google Sheets mirror                 *)
(* (_build_creds, _get_spreadsheet, _ensure_ws) and the password-gated     *)
(* admin routes.                                                           *)
(*                                                                         *)
(* Strings are sequences of one-character tokens, so that strip(), join()  *)
(* and the f-string formatting are computed, not assumed.  Subject labels  *)
(* and the fixed punctuation of the summary are single tokens.             *)
(***************************************************************************)
EXTENDS Integers, Sequences, FiniteSets, TLC

VARIABLES
    pc,          \* per worker thread: the place the handler it runs has reached
    req,         \* per worker thread: the route being served and its session / row_id
    form,        \* per worker thread: request.form, a sequence of <<key, value>> pairs
    vnos,        \* per worker thread: oddaj's locals (ime .. oddelek, predmeti_str)
    resp,        \* per worker thread: the response of the last request it served
    con,         \* per worker thread: the sqlite3 connection of the running store call
    txn,         \* per worker thread: the uncommitted statement of that connection
    rows,        \* per worker thread: the result of all_vnosi()
    ss,          \* per worker thread: _ensure_ws's local ss
    schema,      \* the instruktors table exists
    table,       \* the committed rows of instruktors
    seq,         \* sqlite_sequence.seq of instruktors (AUTOINCREMENT)
    dbLock,      \* the holder of SQLite's write lock
    leaked,      \* connections no handler holds any more that were never closed
    gs_client,   \* the module global _gs_client
    gs_spread,   \* the module global _gs_spread
    established, \* the spreadsheet handles open_by_key has returned
    sheetExists, \* the worksheet WS_TITLE exists in the spreadsheet
    sheetRows,   \* its rows
    session,     \* per browser session: the keys set in flask.session
    presented,   \* per browser session: what it last did at the login surface
    gotFirst,    \* Flask's before_first_request: "pending", "running" or "done"
    issued,      \* every id a committed row has been given
    served       \* the number of requests dispatched so far

vars == <<pc, req, form, vnos, resp, con, txn, rows, ss, schema, table, seq,
          dbLock, leaked, gs_client, gs_spread, established, sheetExists, sheetRows,
          session, presented, gotFirst, issued, served>>

storeVars  == <<schema, table, seq, dbLock, leaked, issued>>
mirrorVars == <<gs_client, gs_spread, established, sheetExists, sheetRows>>
adminVars  == <<session, presented, gotFirst>>

-----------------------------------------------------------------------------
(* Bounds *)

MaxRequests    == 5   \* requests dispatched in one behaviour of Spec
MaxSubmissions == 2   \* submissions dispatched in one behaviour of SpecMirror
NumThreads  == 2      \* worker threads of the hosting server
NumSessions == 2      \* browser sessions

Threads  == 1..NumThreads
Sessions == 1..NumSessions

-----------------------------------------------------------------------------
(* Strings *)

Space == " "

RECURSIVE LStrip(_)
LStrip(s) == IF s # <<>> /\ Head(s) = Space THEN LStrip(Tail(s)) ELSE s

RECURSIVE RStrip(_)
RStrip(s) ==
    IF s # <<>> /\ s[Len(s)] = Space THEN RStrip(SubSeq(s, 1, Len(s) - 1)) ELSE s

\* str.strip()
Strip(s) == RStrip(LStrip(s))

RECURSIVE Join(_, _)
\* sep.join(parts)
Join(sep, parts) ==
    IF parts = <<>> THEN <<>>
    ELSE IF Len(parts) = 1 THEN parts[1]
    ELSE parts[1] \o sep \o Join(sep, Tail(parts))

-----------------------------------------------------------------------------
(* Configuration *)

ADMIN_PASS == <<"instruktorji2025">>

\* The first three entries of the catalog; label is one token.
PREDMETI == << <<"mat", "Matematika">>, <<"fiz", "Fizika">>, <<"ang", "Anglescina">> >>

HEADERS == <<"Datum", "Ime", "Priimek", "E-posta", "Razred", "Oddelek", "Predmeti (ucitelj)">>

EmDash == <<"--">>

On == <<"o", "n">>

ReqFields == <<"ime", "priimek", "email", "razred", "oddelek">>

None == <<>>

-----------------------------------------------------------------------------
(* request.form *)

FormHas(f, key) == \E i \in 1..Len(f) : f[i][1] = key

\* f.get(key, default): the first value submitted under key
FormGet(f, key, default) ==
    IF FormHas(f, key)
    THEN f[CHOOSE i \in 1..Len(f) :
               f[i][1] = key /\ \A j \in 1..(i - 1) : f[j][1] # key][2]
    ELSE default

\* The keys of the form: a required field, a subject's checkbox, its teacher field.
FieldKey(name)   == <<name>>
ChkKey(code)     == <<"chk_", code>>
TeacherKey(code) == <<"teacher_", code>>

-----------------------------------------------------------------------------
(* oddaj: validation (no I/O) *)

\* f.get(name, "").strip()
Field(f, name) == Strip(FormGet(f, FieldKey(name), <<>>))

\* RequiredOk with any() for all(): one filled field is enough.
RequiredOk_Any(f) == \E i \in 1..Len(ReqFields) : Field(f, ReqFields[i]) # <<>>

\* all([ime, priimek, email, razred, oddelek])
RequiredOk(f) == \A i \in 1..Len(ReqFields) : Field(f, ReqFields[i]) # <<>>

\* f.get(f"chk_{code}") == "on"
Checked(f, code) == FormHas(f, ChkKey(code)) /\ FormGet(f, ChkKey(code), None) = On

\* Teacher without the strip().
Teacher_NoStrip(f, code) == FormGet(f, TeacherKey(code), <<>>)

\* f.get(f"teacher_{code}", "").strip()
Teacher(f, code) == Strip(FormGet(f, TeacherKey(code), <<>>))

\* f"{label} ({teacher})"
Pair(label, teacher) == <<label, " (">> \o teacher \o <<")">>

RECURSIVE SubjectLoop_Drop(_, _, _)
\* SubjectLoop that drops a checked subject without a teacher instead of
\* rejecting the submission.
SubjectLoop_Drop(f, i, pari) ==
    IF i > Len(PREDMETI) THEN [ok |-> TRUE, label |-> "", pari |-> pari]
    ELSE IF Checked(f, PREDMETI[i][1]) /\ Teacher(f, PREDMETI[i][1]) # <<>>
         THEN SubjectLoop_Drop(f, i + 1,
                  Append(pari, Pair(PREDMETI[i][2], Teacher(f, PREDMETI[i][1]))))
         ELSE SubjectLoop_Drop(f, i + 1, pari)

RECURSIVE SubjectLoop(_, _, _)
\* The loop over PREDMETI from entry i on, with pari collected so far: the
\* label of the subject it rejects, or the finished pari.
SubjectLoop(f, i, pari) ==
    IF i > Len(PREDMETI) THEN [ok |-> TRUE, label |-> "", pari |-> pari]
    ELSE IF Checked(f, PREDMETI[i][1])
         THEN IF Teacher(f, PREDMETI[i][1]) = <<>>
              THEN [ok |-> FALSE, label |-> PREDMETI[i][2], pari |-> <<>>]
              ELSE SubjectLoop(f, i + 1,
                       Append(pari, Pair(PREDMETI[i][2], Teacher(f, PREDMETI[i][1]))))
         ELSE SubjectLoop(f, i + 1, pari)

\* "; ".join(pari) if pari else "-"
PredmetiStr(pari) == IF pari # <<>> THEN Join(<<"; ">>, pari) ELSE EmDash

-----------------------------------------------------------------------------
(* Responses *)

NoResp == [status |-> "none", to |-> "", flash |-> <<>>]

Redirect(to, flash) == [status |-> "302", to |-> to, flash |-> flash]

\* An exception that leaves the view function: Flask answers 500.
Error500 == [status |-> "500", to |-> "", flash |-> <<>>]

Page(name) == [status |-> "200", to |-> name, flash |-> <<>>]

FlashRequired   == <<"error", "Izpolnite vsa obvezna polja">>
FlashTeacher(l) == <<"error", "Vnesite ucitelja pri predmetu", l>>
FlashSaved      == <<"ok", "Hvala! Prijava je shranjena.">>
FlashWrongPass  == <<"error", "Napacno geslo.">>

NoReq == [route |-> "none", s |-> 0, row_id |-> 0, password |-> <<>>]

-----------------------------------------------------------------------------
(* Leaving a handler *)

\* The view function returns r, or raises and Flask answers 500.
Return(t, r) ==
    /\ pc'   = [pc EXCEPT ![t] = "done"]
    /\ resp' = [resp EXCEPT ![t] = r]
    /\ UNCHANGED req

\* StoreRaise with the exception swallowed around add_vnos: oddaj goes on to
\* the mirror.
StoreRaise_Swallow(t) ==
    /\ pc'     = [pc EXCEPT ![t] = "get_ss"]
    /\ con'    = [con EXCEPT ![t] = "none"]
    /\ txn'    = [txn EXCEPT ![t] = <<>>]
    /\ leaked' = IF con[t] = "open" /\ dbLock # t THEN leaked + 1 ELSE leaked
    /\ dbLock' = IF dbLock = t THEN -1 ELSE dbLock
    /\ UNCHANGED <<resp, req, schema, table, seq, issued, rows>>

\* An exception leaves a store function before its con.close(): the connection
\* object stays open, with the write lock if its transaction had taken it,
\* until the interpreter finalizes it.
StoreRaise(t) ==
    /\ Return(t, Error500)
    /\ con'    = [con EXCEPT ![t] = "none"]
    /\ txn'    = [txn EXCEPT ![t] = <<>>]
    /\ leaked' = IF con[t] = "open" /\ dbLock # t THEN leaked + 1 ELSE leaked
    /\ dbLock' = IF dbLock = t THEN -1 ELSE dbLock
    /\ UNCHANGED <<schema, table, seq, issued, rows>>

\* The interpreter finalizes an unreachable connection: sqlite3 closes it and
\* rolls its open transaction back.
Finalize ==
    /\ \/ /\ leaked > 0
          /\ leaked' = leaked - 1
          /\ UNCHANGED dbLock
       \/ /\ dbLock = -1
          /\ dbLock' = 0
          /\ UNCHANGED leaked
    /\ UNCHANGED <<pc, req, form, vnos, resp, con, txn, rows, ss, schema, table,
                   seq, issued, mirrorVars, adminVars, served>>

-----------------------------------------------------------------------------
(* oddaj, lines 313-333: read the form, validate, build predmeti_str *)

OddajValidate(t) ==
    /\ pc[t] = "oddaj"
    /\ LET f   == form[t]
           res == SubjectLoop(f, 1, <<>>)
       IN  IF ~RequiredOk(f)
           THEN /\ Return(t, Redirect("index", FlashRequired))
                /\ UNCHANGED vnos
           ELSE IF ~res.ok
           THEN /\ Return(t, Redirect("index", FlashTeacher(res.label)))
                /\ UNCHANGED vnos
           ELSE /\ vnos' = [vnos EXCEPT ![t] =
                                <<Field(f, "ime"), Field(f, "priimek"), Field(f, "email"),
                                  Field(f, "razred"), Field(f, "oddelek"),
                                  PredmetiStr(res.pari)>>]
                /\ pc' = [pc EXCEPT ![t] = "add_connect"]
                /\ UNCHANGED <<resp, req>>
    /\ UNCHANGED <<form, con, txn, rows, ss, storeVars, mirrorVars, adminVars,
                   served>>

-----------------------------------------------------------------------------
(* The store: sqlite3 *)

MaxOf(S) == IF S = {} THEN 0 ELSE CHOOSE m \in S : \A x \in S : x <= m

\* NextRowId of a plain INTEGER PRIMARY KEY column, without AUTOINCREMENT: one
\* more than the largest rowid now in the table.
NextRowId_NoAuto == MaxOf({r.id : r \in table}) + 1

\* The rowid an INSERT into an AUTOINCREMENT table gets: one more than the
\* largest rowid the table has ever held.
NextRowId == MaxOf({r.id : r \in table} \cup {seq}) + 1

\* sqlite3.connect(DB_PATH)
Connect(t, next, ok) ==
    /\ IF ok
       THEN /\ con' = [con EXCEPT ![t] = "open"]
            /\ pc'  = [pc EXCEPT ![t] = next]
            /\ UNCHANGED <<resp, req, txn, storeVars, rows>>
       ELSE StoreRaise(t)

\* con.close()
Close(t, next) ==
    /\ con' = [con EXCEPT ![t] = "closed"]
    /\ pc'  = [pc EXCEPT ![t] = next]

\* add_vnos, line 127
AddConnect(t) ==
    /\ pc[t] = "add_connect"
    /\ \E ok \in BOOLEAN : Connect(t, "add_execute", ok)
    /\ UNCHANGED <<form, vnos, ss, mirrorVars, adminVars, served>>

\* add_vnos, lines 128-132: the INSERT opens a transaction and takes the write
\* lock; it raises when the table is missing, the lock is not to be had or the
\* engine fails.
AddExecute(t) ==
    /\ pc[t] = "add_execute"
    /\ \E ok \in BOOLEAN :
          IF ok /\ schema
          THEN /\ dbLock = 0
               /\ dbLock' = t
               /\ txn' = [txn EXCEPT ![t] = <<"insert", NextRowId>>]
               /\ pc'  = [pc EXCEPT ![t] = "add_commit"]
               /\ UNCHANGED <<resp, req, con, schema, table, seq, leaked, issued, rows>>
          ELSE StoreRaise(t)
    /\ UNCHANGED <<form, vnos, ss, mirrorVars, adminVars, served>>

\* add_vnos, line 133
AddCommit(t) ==
    /\ pc[t] = "add_commit"
    /\ \E ok \in BOOLEAN :
          IF ok
          THEN /\ table' = table \cup {[id |-> txn[t][2], vnos |-> vnos[t]]}
               /\ seq' = txn[t][2]
               /\ issued' = issued \cup {txn[t][2]}
               /\ dbLock' = 0
               /\ txn' = [txn EXCEPT ![t] = <<>>]
               /\ pc'  = [pc EXCEPT ![t] = "add_close"]
               /\ UNCHANGED <<resp, req, con, schema, leaked, rows>>
          ELSE StoreRaise(t)
    /\ UNCHANGED <<form, vnos, ss, mirrorVars, adminVars, served>>

\* add_vnos, line 134; oddaj goes on to the mirror
AddClose(t) ==
    /\ pc[t] = "add_close"
    /\ Close(t, "get_ss")
    /\ UNCHANGED <<req, form, vnos, resp, txn, rows, ss, storeVars, mirrorVars,
                   adminVars, served>>

-----------------------------------------------------------------------------
(* The mirror: gspread *)

\* SECRET_PATH, LOCAL_PATH and the environment variable SERVICE_ACCOUNT_JSON
CredSources == {"secret_file", "local_file", "env_json"}

\* _build_creds: the first source present is loaded; "raise" when loading it
\* fails or none is present.  present: which sources the environment holds.
BuildCreds(present, loadOk) ==
    IF present["secret_file"] THEN (IF loadOk THEN "secret_file" ELSE "raise")
    ELSE IF present["local_file"] THEN (IF loadOk THEN "local_file" ELSE "raise")
    ELSE IF present["env_json"] THEN (IF loadOk THEN "env_json" ELSE "raise")
    ELSE "raise"

\* The client gspread.authorize makes in worker t's call, whichever credentials
\* it was given, and the handle open_by_key returns for a client.
Client(src, t)      == <<"client", t>>
Spreadsheet(client) == <<"spreadsheet", client>>

\* The row oddaj hands to ws.append_row: the timestamp, then the six locals.
DataRow(t) == <<"now">> \o vnos[t]

\* oddaj, lines 351-352
OddajFinish(t) == Return(t, Redirect("index", FlashSaved))

\* oddaj, lines 346-347: _ensure_ws returned None; a warning is logged
MirrorSkipped(t) == OddajFinish(t)

\* MirrorCaught without the try/except: the exception leaves oddaj.
MirrorCaught_Propagates(t) == Return(t, Error500)

\* oddaj, lines 348-349: an exception of _ensure_ws or append_row is caught
\* and logged
MirrorCaught(t) == OddajFinish(t)

\* CacheHit that tests the other global, _gs_client.
CacheHit_Client == gs_client # None

\* _get_spreadsheet, lines 53-54: the cached handle, if there is one
CacheHit == gs_spread # None

\* _get_spreadsheet, lines 53-54, and _ensure_ws, lines 67-69, on a hit
GsCheck(t) ==
    /\ pc[t] = "get_ss"
    /\ IF CacheHit
       THEN /\ ss' = [ss EXCEPT ![t] = gs_spread]
            /\ IF gs_spread = None
               THEN MirrorSkipped(t)
               ELSE /\ pc' = [pc EXCEPT ![t] = "ws_lookup"]
                    /\ UNCHANGED <<resp, req>>
       ELSE /\ pc' = [pc EXCEPT ![t] = "authorize"]
            /\ UNCHANGED <<ss, resp, req>>
    /\ UNCHANGED <<form, vnos, con, txn, rows, storeVars, mirrorVars, adminVars,
                   served>>

\* _get_spreadsheet, lines 56-57 (and 61-63 when either call raises): the
\* credentials are read and handed to gspread.authorize
GsAuthorize(t) ==
    /\ pc[t] = "authorize"
    /\ \E present \in [CredSources -> BOOLEAN],
          loadOk \in BOOLEAN, ok \in BOOLEAN :
          LET c == BuildCreds(present, loadOk)
          IN  IF c # "raise" /\ ok
              THEN /\ gs_client' = Client(c, t)
                   /\ pc' = [pc EXCEPT ![t] = "open_by_key"]
                   /\ UNCHANGED <<resp, req>>
              ELSE /\ MirrorSkipped(t)
                   /\ UNCHANGED gs_client
    /\ UNCHANGED <<form, vnos, con, txn, rows, ss, storeVars, gs_spread, established,
                   sheetExists, sheetRows, adminVars, served>>

\* _get_spreadsheet, lines 58-60: open_by_key on whatever _gs_client is now
GsOpen(t) ==
    /\ pc[t] = "open_by_key"
    /\ \E ok \in BOOLEAN :
          IF ok
          THEN /\ established' = established \cup {Spreadsheet(gs_client)}
               /\ gs_spread' = Spreadsheet(gs_client)
               /\ ss' = [ss EXCEPT ![t] = gs_spread']
               /\ pc' = [pc EXCEPT ![t] = "ws_lookup"]
               /\ UNCHANGED <<resp, req>>
          ELSE /\ MirrorSkipped(t)
               /\ UNCHANGED <<gs_spread, established, ss>>
    /\ UNCHANGED <<form, vnos, con, txn, rows, storeVars, gs_client, sheetExists,
                   sheetRows, adminVars, served>>

\* _ensure_ws, lines 71-72: ss.worksheet(title) finds the worksheet, raises
\* WorksheetNotFound, or fails otherwise (which leaves _ensure_ws)
WsLookup(t) ==
    /\ pc[t] = "ws_lookup"
    /\ \E ok \in BOOLEAN :
          IF ok
          THEN /\ pc' = [pc EXCEPT ![t] =
                            IF sheetExists THEN "ws_get_all" ELSE "ws_add"]
               /\ UNCHANGED <<resp, req>>
          ELSE MirrorCaught(t)
    /\ UNCHANGED <<form, vnos, con, txn, rows, ss, storeVars, mirrorVars,
                   adminVars, served>>

\* _ensure_ws, line 73: add_worksheet fails when the title exists by now
WsAdd(t) ==
    /\ pc[t] = "ws_add"
    /\ \E ok \in BOOLEAN :
          IF ok /\ ~sheetExists
          THEN /\ sheetExists' = TRUE
               /\ sheetRows' = <<>>
               /\ pc' = [pc EXCEPT ![t] = "ws_add_header"]
               /\ UNCHANGED <<resp, req>>
          ELSE /\ MirrorCaught(t)
               /\ UNCHANGED <<sheetExists, sheetRows>>
    /\ UNCHANGED <<form, vnos, con, txn, rows, ss, storeVars, gs_client, gs_spread,
                   established, adminVars, served>>

\* _ensure_ws, lines 74-75
WsAddHeader(t) ==
    /\ pc[t] = "ws_add_header"
    /\ \E ok \in BOOLEAN :
          IF ok
          THEN /\ sheetRows' = Append(sheetRows, HEADERS)
               /\ pc' = [pc EXCEPT ![t] = "append_row"]
               /\ UNCHANGED <<resp, req>>
          ELSE /\ MirrorCaught(t)
               /\ UNCHANGED sheetRows
    /\ UNCHANGED <<form, vnos, con, txn, rows, ss, storeVars, gs_client, gs_spread,
                   established, sheetExists, adminVars, served>>

\* _ensure_ws, lines 76-77 (and 79-80 when get_all_values raises)
WsGetAll(t) ==
    /\ pc[t] = "ws_get_all"
    /\ \E ok \in BOOLEAN :
          pc' = [pc EXCEPT ![t] =
                    IF ok /\ sheetRows = <<>> THEN "ws_header" ELSE "append_row"]
    /\ UNCHANGED <<req, form, vnos, resp, con, txn, rows, ss, storeVars,
                   mirrorVars, adminVars, served>>

\* _ensure_ws, lines 78-81
WsHeader(t) ==
    /\ pc[t] = "ws_header"
    /\ \E ok \in BOOLEAN :
          sheetRows' = IF ok THEN Append(sheetRows, HEADERS) ELSE sheetRows
    /\ pc' = [pc EXCEPT ![t] = "append_row"]
    /\ UNCHANGED <<req, form, vnos, resp, con, txn, rows, ss, storeVars,
                   gs_client, gs_spread, established, sheetExists, adminVars, served>>

\* oddaj, lines 341-345 and 348-352
MirrorAppend(t) ==
    /\ pc[t] = "append_row"
    /\ \E ok \in BOOLEAN :
          IF ok
          THEN /\ sheetRows' = Append(sheetRows, DataRow(t))
               /\ OddajFinish(t)
          ELSE /\ UNCHANGED sheetRows
               /\ MirrorCaught(t)
    /\ UNCHANGED <<form, vnos, con, txn, rows, ss, storeVars, gs_client,
                   gs_spread, established, sheetExists, adminVars, served>>

\* One step of oddaj on worker t
Oddaj(t) ==
    \/ OddajValidate(t)
    \/ AddConnect(t)
    \/ AddExecute(t)
    \/ AddCommit(t)
    \/ AddClose(t)
    \/ GsCheck(t)
    \/ GsAuthorize(t)
    \/ GsOpen(t)
    \/ WsLookup(t)
    \/ WsAdd(t)
    \/ WsAddHeader(t)
    \/ WsGetAll(t)
    \/ WsHeader(t)
    \/ MirrorAppend(t)

-----------------------------------------------------------------------------
(* init_db, run by Flask before the first request is handled *)

\* init_db, line 103
InitConnect(t) ==
    /\ pc[t] = "init_connect"
    /\ \E ok \in BOOLEAN :
          /\ Connect(t, "init_execute", ok)
          /\ gotFirst' = IF ok THEN gotFirst ELSE "pending"
    /\ UNCHANGED <<form, vnos, ss, mirrorVars, session, presented, served>>

\* init_db, lines 104-116: CREATE TABLE IF NOT EXISTS takes effect as it runs
InitExecute(t) ==
    /\ pc[t] = "init_execute"
    /\ \E ok \in BOOLEAN :
          IF ok /\ dbLock = 0
          THEN /\ schema' = TRUE
               /\ pc' = [pc EXCEPT ![t] = "init_close"]
               /\ UNCHANGED <<resp, req, con, txn, table, seq, dbLock, leaked, issued,
                              rows, gotFirst>>
          ELSE /\ StoreRaise(t)
               /\ gotFirst' = "pending"
    /\ UNCHANGED <<form, vnos, ss, mirrorVars, session, presented, served>>

\* init_db, lines 117-119 (nothing is left to commit), then the view function
InitClose(t) ==
    /\ pc[t] = "init_close"
    /\ Close(t, req[t].route)
    /\ gotFirst' = "done"
    /\ UNCHANGED <<req, form, vnos, resp, txn, rows, ss, storeVars, mirrorVars,
                   session, presented, served>>

InitDb(t) ==
    \/ InitConnect(t)
    \/ InitExecute(t)
    \/ InitClose(t)

-----------------------------------------------------------------------------
(* The admin routes *)

\* PasswordOk that only asks for some password.
PasswordOk_Any(password) == password # <<>>

\* The comparison of admin_do_login, line 366
PasswordOk(password) == password = ADMIN_PASS

\* admin_ok(), lines 355-356
admin_ok(s) == "admin_ok" \in session[s]

\* admin_do_login, lines 365-370
AdminDoLogin(t) ==
    /\ pc[t] = "admin_do_login"
    /\ LET s == req[t].s
       IN  /\ IF PasswordOk(req[t].password)
              THEN /\ session' = [session EXCEPT ![s] = @ \cup {"admin_ok"}]
                   /\ Return(t, Redirect("admin_panel", <<>>))
              ELSE /\ UNCHANGED session
                   /\ Return(t, Redirect("admin_login", FlashWrongPass))
           /\ presented' = [presented EXCEPT ![s] =
                               IF req[t].password = ADMIN_PASS THEN "secret"
                               ELSE IF @ = "secret" THEN "secret" ELSE "wrong"]
    /\ UNCHANGED <<form, vnos, con, txn, rows, ss, storeVars, mirrorVars,
                   gotFirst, served>>

\* admin_logout, lines 387-389
AdminLogout(t) ==
    /\ pc[t] = "admin_logout"
    /\ session' = [session EXCEPT ![req[t].s] = {}]
    /\ presented' = [presented EXCEPT ![req[t].s] = "logged_out"]
    /\ Return(t, Redirect("admin_login", <<>>))
    /\ UNCHANGED <<form, vnos, con, txn, rows, ss, storeVars, mirrorVars,
                   gotFirst, served>>

\* The store function a gated route calls once admin_ok() has let it through
FirstStoreStep(route) == IF route = "admin_delete" THEN "del_connect" ELSE "list_connect"

\* admin_panel, admin_delete and export_csv, lines 374-375, 381-382, 394-395
AdminGate(t) ==
    /\ pc[t] \in {"admin_panel", "admin_delete", "export_csv"}
    /\ IF admin_ok(req[t].s)
       THEN /\ pc' = [pc EXCEPT ![t] = FirstStoreStep(req[t].route)]
            /\ UNCHANGED <<resp, req>>
       ELSE Return(t, Redirect("admin_login", <<>>))
    /\ UNCHANGED <<form, vnos, con, txn, rows, ss, storeVars, mirrorVars,
                   adminVars, served>>

RECURSIVE SortDesc(_)
\* ORDER BY id DESC
SortDesc(S) ==
    IF S = {} THEN <<>>
    ELSE LET top == CHOOSE r \in S : \A q \in S : q.id <= r.id
         IN  <<top>> \o SortDesc(S \ {top})

\* all_vnosi, line 137
ListConnect(t) ==
    /\ pc[t] = "list_connect"
    /\ \E ok \in BOOLEAN : Connect(t, "list_execute", ok)
    /\ UNCHANGED <<form, vnos, ss, mirrorVars, adminVars, served>>

\* all_vnosi, lines 138-140
ListExecute(t) ==
    /\ pc[t] = "list_execute"
    /\ \E ok \in BOOLEAN :
          IF ok /\ schema
          THEN /\ rows' = [rows EXCEPT ![t] = SortDesc(table)]
               /\ pc' = [pc EXCEPT ![t] = "list_close"]
               /\ UNCHANGED <<resp, req, con, txn, storeVars>>
          ELSE StoreRaise(t)
    /\ UNCHANGED <<form, vnos, ss, mirrorVars, adminVars, served>>

\* all_vnosi, lines 141-142, then admin_panel, line 377, or export_csv,
\* lines 397-408
ListClose(t) ==
    /\ pc[t] = "list_close"
    /\ con' = [con EXCEPT ![t] = "closed"]
    /\ Return(t, Page(req[t].route))
    /\ UNCHANGED <<form, vnos, txn, rows, ss, storeVars, mirrorVars, adminVars,
                   served>>

\* delete_vnos, line 145
DelConnect(t) ==
    /\ pc[t] = "del_connect"
    /\ \E ok \in BOOLEAN : Connect(t, "del_execute", ok)
    /\ UNCHANGED <<form, vnos, ss, mirrorVars, adminVars, served>>

\* delete_vnos, lines 146-147: the DELETE takes the write lock
DelExecute(t) ==
    /\ pc[t] = "del_execute"
    /\ \E ok \in BOOLEAN :
          IF ok /\ schema
          THEN /\ dbLock = 0
               /\ dbLock' = t
               /\ txn' = [txn EXCEPT ![t] = <<"delete", req[t].row_id>>]
               /\ pc'  = [pc EXCEPT ![t] = "del_commit"]
               /\ UNCHANGED <<resp, req, con, schema, table, seq, leaked, issued, rows>>
          ELSE StoreRaise(t)
    /\ UNCHANGED <<form, vnos, ss, mirrorVars, adminVars, served>>

\* delete_vnos, line 148
DelCommit(t) ==
    /\ pc[t] = "del_commit"
    /\ \E ok \in BOOLEAN :
          IF ok
          THEN /\ table' = {r \in table : r.id # txn[t][2]}
               /\ dbLock' = 0
               /\ txn' = [txn EXCEPT ![t] = <<>>]
               /\ pc'  = [pc EXCEPT ![t] = "del_close"]
               /\ UNCHANGED <<resp, req, con, schema, seq, leaked, issued, rows>>
          ELSE StoreRaise(t)
    /\ UNCHANGED <<form, vnos, ss, mirrorVars, adminVars, served>>

\* delete_vnos, line 149, then admin_delete, line 384
DelClose(t) ==
    /\ pc[t] = "del_close"
    /\ con' = [con EXCEPT ![t] = "closed"]
    /\ Return(t, Redirect("admin_panel", <<>>))
    /\ UNCHANGED <<form, vnos, txn, rows, ss, storeVars, mirrorVars, adminVars,
                   served>>

Admin(t) ==
    \/ AdminDoLogin(t)
    \/ AdminLogout(t)
    \/ AdminGate(t)
    \/ ListConnect(t)
    \/ ListExecute(t)
    \/ ListClose(t)
    \/ DelConnect(t)
    \/ DelExecute(t)
    \/ DelCommit(t)
    \/ DelClose(t)

-----------------------------------------------------------------------------
(* The hosting server *)

\* A request r is handed to the idle worker t, if fewer than max have been.
\* The first request runs init_db before its view function; requests arriving
\* meanwhile wait.
Dispatch(t, r, f, max) ==
    /\ pc[t] = "idle"
    /\ served < max
    /\ gotFirst # "running"
    /\ served' = served + 1
    /\ req'  = [req EXCEPT ![t] = r]
    /\ form' = [form EXCEPT ![t] = f]
    /\ pc'   = [pc EXCEPT ![t] = IF gotFirst = "pending" THEN "init_connect" ELSE r.route]
    /\ gotFirst' = IF gotFirst = "pending" THEN "running" ELSE gotFirst
    /\ UNCHANGED <<vnos, resp, con, txn, rows, ss, storeVars, mirrorVars, session,
                   presented>>

\* The response has been sent; the request's context is dropped.
Complete(t) ==
    /\ pc[t] = "done"
    /\ pc'    = [pc EXCEPT ![t] = "idle"]
    /\ req'   = [req EXCEPT ![t] = NoReq]
    /\ form'  = [form EXCEPT ![t] = <<>>]
    /\ vnos'  = [vnos EXCEPT ![t] = <<>>]
    /\ resp'  = [resp EXCEPT ![t] = NoResp]
    /\ con'   = [con EXCEPT ![t] = "none"]
    /\ rows'  = [rows EXCEPT ![t] = <<>>]
    /\ ss'    = [ss EXCEPT ![t] = None]
    /\ UNCHANGED <<txn, storeVars, mirrorVars, adminVars, served>>

-----------------------------------------------------------------------------
(* The forms a client can submit *)

Absent == <<"<absent>">>

\* A required field is absent, blank, or a padded name.
ReqVals == {Absent, <<" ">>, <<" ", "A", " ">>}

\* A checkbox is absent (unchecked) or "on"; a teacher field is absent, blank
\* or a padded name.
ChkVals     == {Absent, On}
TeacherVals == {Absent, <<" ">>, <<" ", "K", " ">>}

Present(p) == p[2] # Absent

\* The subjects' fields in the order the client sends them: catalog order, or
\* its reverse.
Orders == {[i \in 1..Len(PREDMETI) |-> i],
           [i \in 1..Len(PREDMETI) |-> Len(PREDMETI) + 1 - i]}

RECURSIVE SubjectPart(_, _, _, _)
SubjectPart(o, chk, tch, i) ==
    IF i > Len(PREDMETI) THEN <<>>
    ELSE << <<ChkKey(PREDMETI[o[i]][1]), chk[o[i]]>>,
            <<TeacherKey(PREDMETI[o[i]][1]), tch[o[i]]>> >>
         \o SubjectPart(o, chk, tch, i + 1)

MkForm(r, o, chk, tch) ==
    SelectSeq([i \in 1..Len(ReqFields) |-> <<FieldKey(ReqFields[i]), r[i]>>]
              \o SubjectPart(o, chk, tch, 1), Present)

Forms ==
    {MkForm(r, o, chk, tch) :
        r \in [1..Len(ReqFields) -> ReqVals], o \in Orders,
        chk \in [1..Len(PREDMETI) -> ChkVals], tch \in [1..Len(PREDMETI) -> TeacherVals]}

-----------------------------------------------------------------------------
(* One submission, every form: the server has started, init_db has run, and  *)
(* worker 1 has been handed a POST /oddaj.                                   *)

InitIntake ==
    /\ pc = [t \in Threads |-> IF t = 1 THEN "oddaj" ELSE "idle"]
    /\ req = [t \in Threads |->
                 IF t = 1 THEN [NoReq EXCEPT !.route = "oddaj"] ELSE NoReq]
    /\ \E f \in Forms : form = [t \in Threads |-> IF t = 1 THEN f ELSE <<>>]
    /\ vnos = [t \in Threads |-> <<>>]
    /\ resp = [t \in Threads |-> NoResp]
    /\ con = [t \in Threads |-> "none"]
    /\ txn = [t \in Threads |-> <<>>]
    /\ rows = [t \in Threads |-> <<>>]
    /\ ss = [t \in Threads |-> None]
    /\ schema = TRUE
    /\ table = {}
    /\ seq = 0
    /\ dbLock = 0
    /\ leaked = 0
    /\ gs_client = None
    /\ gs_spread = None
    /\ established = {}
    /\ sheetExists \in BOOLEAN
    /\ sheetRows = <<>>
    /\ session = [s \in Sessions |-> {}]
    /\ presented = [s \in Sessions |-> "nothing"]
    /\ gotFirst = "done"
    /\ issued = {}
    /\ served = 1

NextIntake ==
    \/ \E t \in Threads : Oddaj(t)
    \/ Finalize

SpecIntake == InitIntake /\ [][NextIntake]_vars

-----------------------------------------------------------------------------
(* The whole application: the server has started and no request has come.   *)
(* The worksheet is absent, or present and empty.                            *)

AllFilled == [i \in 1..Len(ReqFields) |-> <<" ", "A", " ">>]
CatalogOrder == [i \in 1..Len(PREDMETI) |-> i]

\* Matematika checked with a teacher; Matematika checked without one.
FormValid ==
    MkForm(AllFilled, CatalogOrder,
           [i \in 1..Len(PREDMETI) |-> IF i = 1 THEN On ELSE Absent],
           [i \in 1..Len(PREDMETI) |-> IF i = 1 THEN <<" ", "K", " ">> ELSE Absent])
FormNoTeacher ==
    MkForm(AllFilled, CatalogOrder,
           [i \in 1..Len(PREDMETI) |-> IF i = 1 THEN On ELSE Absent],
           [i \in 1..Len(PREDMETI) |-> IF i = 1 THEN <<" ">> ELSE Absent])

OddajRequests == {<<[NoReq EXCEPT !.route = "oddaj"], f>> : f \in {FormValid, FormNoTeacher}}

Passwords == {ADMIN_PASS, <<"geslo">>}

AdminRequests ==
    {<<[NoReq EXCEPT !.route = "admin_do_login", !.s = s, !.password = p], <<>> >> :
        s \in Sessions, p \in Passwords}
    \cup {<<[NoReq EXCEPT !.route = r, !.s = s], <<>> >> :
        r \in {"admin_logout", "admin_panel", "export_csv"}, s \in Sessions}
    \cup {<<[NoReq EXCEPT !.route = "admin_delete", !.s = s, !.row_id = i], <<>> >> :
        s \in Sessions, i \in 1..MaxRequests}

Init ==
    /\ pc = [t \in Threads |-> "idle"]
    /\ req = [t \in Threads |-> NoReq]
    /\ form = [t \in Threads |-> <<>>]
    /\ vnos = [t \in Threads |-> <<>>]
    /\ resp = [t \in Threads |-> NoResp]
    /\ con = [t \in Threads |-> "none"]
    /\ txn = [t \in Threads |-> <<>>]
    /\ rows = [t \in Threads |-> <<>>]
    /\ ss = [t \in Threads |-> None]
    /\ schema = FALSE
    /\ table = {}
    /\ seq = 0
    /\ dbLock = 0
    /\ leaked = 0
    /\ gs_client = None
    /\ gs_spread = None
    /\ established = {}
    /\ sheetExists \in BOOLEAN
    /\ sheetRows = <<>>
    /\ session = [s \in Sessions |-> {}]
    /\ presented = [s \in Sessions |-> "nothing"]
    /\ gotFirst = "pending"
    /\ issued = {}
    /\ served = 0

\* Concurrent submissions on all workers.
NextMirror ==
    \/ \E t \in Threads : \E r \in OddajRequests : Dispatch(t, r[1], r[2], MaxSubmissions)
    \/ \E t \in Threads : InitDb(t)
    \/ \E t \in Threads : Oddaj(t)
    \/ \E t \in Threads : Complete(t)
    \/ Finalize

SpecMirror == Init /\ [][NextMirror]_vars

\* Every route, the requests served one after the other by worker 1.
Next ==
    \/ \E r \in OddajRequests \cup AdminRequests : Dispatch(1, r[1], r[2], MaxRequests)
    \/ InitDb(1)
    \/ Oddaj(1)
    \/ Admin(1)
    \/ Complete(1)
    \/ Finalize

Spec == Init /\ [][Next]_vars

-----------------------------------------------------------------------------
(* What a form says, read off its fields directly *)

IsOddaj(t) == req[t].route = "oddaj"

NonBlank(v) == \E i \in 1..Len(v) : v[i] # Space

\* Every required field was sent with something other than whitespace in it.
ReqFilled(f) ==
    \A n \in 1..Len(ReqFields) :
        \E i \in 1..Len(f) : f[i][1] = <<ReqFields[n]>> /\ NonBlank(f[i][2])

CheckedOn(f, k)    == \E i \in 1..Len(f) : f[i] = <<ChkKey(PREDMETI[k][1]), On>>
TeacherNamed(f, k) ==
    \E i \in 1..Len(f) : f[i][1] = TeacherKey(PREDMETI[k][1]) /\ NonBlank(f[i][2])

\* Catalog entry k is checked and has no teacher name.
Offending(f, k) == CheckedOn(f, k) /\ ~TeacherNamed(f, k)
AnyOffending(f) == \E k \in 1..Len(PREDMETI) : Offending(f, k)
FirstOffending(f) ==
    CHOOSE k \in 1..Len(PREDMETI) : Offending(f, k) /\ \A j \in 1..(k - 1) : ~Offending(f, j)

\* The place of a key among the submitted fields (0: not sent).
PlaceOf(f, key) == IF FormHas(f, key) THEN CHOOSE i \in 1..Len(f) : f[i][1] = key ELSE 0

\* v without the whitespace around it.
Trimmed(v) ==
    LET idx == {i \in 1..Len(v) : v[i] # Space}
    IN  IF idx = {} THEN <<>>
        ELSE SubSeq(v, CHOOSE a \in idx : \A x \in idx : a <= x,
                       CHOOSE b \in idx : \A x \in idx : x <= b)

\* "Label (Teacher)" of catalog entry k.
Segment(f, k) ==
    <<PREDMETI[k][2], " (">>
    \o Trimmed(f[CHOOSE i \in 1..Len(f) : f[i][1] = TeacherKey(PREDMETI[k][1])][2])
    \o <<")">>

RECURSIVE SummaryUpTo(_, _)
\* The summary of the checked subjects among catalog entries 1..k.
SummaryUpTo(f, k) ==
    IF k = 0 THEN <<>>
    ELSE IF ~CheckedOn(f, k) THEN SummaryUpTo(f, k - 1)
    ELSE IF \E j \in 1..(k - 1) : CheckedOn(f, j)
         THEN SummaryUpTo(f, k - 1) \o <<"; ">> \o Segment(f, k)
         ELSE Segment(f, k)

NumChecked(f) == Cardinality({k \in 1..Len(PREDMETI) : CheckedOn(f, k)})
Count(v, tok) == Cardinality({i \in 1..Len(v) : v[i] = tok})

ExpectedSummary(f) == IF NumChecked(f) = 0 THEN EmDash ELSE SummaryUpTo(f, Len(PREDMETI))

Stored(t) == \E r \in table : r.vnos = vnos[t]

MirrorPcs == {"get_ss", "authorize", "open_by_key", "ws_lookup", "ws_add",
              "ws_add_header", "ws_get_all", "ws_header", "append_row"}

MirrorUntouched ==
    /\ gs_client = None
    /\ gs_spread = None
    /\ established = {}
    /\ sheetRows = <<>>

-----------------------------------------------------------------------------
(* Claims about one submission (SpecIntake) *)

\* C1: a submission with the five required fields filled and a checked subject
\* whose teacher name is blank stores nothing, never reaches the mirror, and is
\* answered with the rejection naming the first such subject of the catalog.
C1_TeacherRejected ==
    \A t \in Threads :
        (IsOddaj(t) /\ ReqFilled(form[t]) /\ AnyOffending(form[t])) =>
            /\ table = {}
            /\ MirrorUntouched
            /\ pc[t] \in {"oddaj", "done"}
            /\ pc[t] = "done" =>
                  resp[t] = Redirect("index",
                                FlashTeacher(PREDMETI[FirstOffending(form[t])][2]))

\* Rejected for Fizika although Anglescina, also without a teacher, was sent
\* first and Matematika carries a valid teacher.
C1_Witness ==
    \E t \in Threads :
        /\ IsOddaj(t) /\ pc[t] = "done" /\ ReqFilled(form[t])
        /\ CheckedOn(form[t], 1) /\ TeacherNamed(form[t], 1)
        /\ Offending(form[t], 2) /\ Offending(form[t], 3)
        /\ PlaceOf(form[t], ChkKey("ang")) < PlaceOf(form[t], ChkKey("fiz"))
        /\ resp[t] = Redirect("index", FlashTeacher("Fizika"))

\* C2: a submission with a required field absent or blank stores nothing,
\* never reaches the mirror, and is answered with the one required-fields
\* rejection, whatever its subjects look like.
C2_RequiredRejected ==
    \A t \in Threads :
        (IsOddaj(t) /\ ~ReqFilled(form[t])) =>
            /\ table = {}
            /\ MirrorUntouched
            /\ pc[t] \in {"oddaj", "done"}
            /\ pc[t] = "done" => resp[t] = Redirect("index", FlashRequired)

\* The required-fields rejection of a form that lacks only oddelek and also
\* has a checked subject without a teacher.
C2_Witness ==
    \E t \in Threads :
        /\ IsOddaj(t) /\ pc[t] = "done"
        /\ ~FormHas(form[t], <<"oddelek">>)
        /\ \A n \in 1..4 : \E i \in 1..Len(form[t]) :
               form[t][i][1] = <<ReqFields[n]>> /\ NonBlank(form[t][i][2])
        /\ AnyOffending(form[t])
        /\ resp[t] = Redirect("index", FlashRequired)

\* C3: oddaj is in its mirror part only with its row committed and the store
\* connection closed; a request that ended in a store fault has not touched
\* the mirror and the success acknowledgment means the row is stored.
C3_StoreBeforeMirror ==
    \A t \in Threads :
        /\ pc[t] \in MirrorPcs => (Stored(t) /\ con[t] = "closed")
        /\ (IsOddaj(t) /\ pc[t] = "done" /\ resp[t] = Error500) =>
              (MirrorUntouched /\ ss[t] = None /\ ~Stored(t))
        /\ (IsOddaj(t) /\ pc[t] = "done" /\ resp[t].flash = FlashSaved) => Stored(t)

\* The commit raised: the request ended 500 with nothing stored.
C3_Witness ==
    \E t \in Threads :
        /\ IsOddaj(t) /\ pc[t] = "done" /\ resp[t] = Error500
        /\ dbLock = -1 /\ table = {} /\ vnos[t] # <<>>

\* C4: once the row of a valid submission is committed, oddaj can only end
\* with the success acknowledgment, the row still stored.
C4_MirrorNeverFails ==
    \A t \in Threads :
        (IsOddaj(t) /\ Stored(t)) =>
            \/ pc[t] = "add_close"
            \/ pc[t] \in MirrorPcs
            \/ pc[t] = "done" /\ resp[t] = Redirect("index", FlashSaved)

\* The success acknowledgment after the worksheet was created and given its
\* header but the append of the data row failed.
C4_Witness ==
    \E t \in Threads :
        /\ IsOddaj(t) /\ pc[t] = "done" /\ Stored(t)
        /\ resp[t] = Redirect("index", FlashSaved)
        /\ sheetRows = <<HEADERS>>

\* C6: the summary oddaj builds and stores for a valid submission is the
\* "Label (Teacher)" segments of its checked subjects, trimmed, in catalog
\* order, joined by "; ": one segment per checked subject, and the dash when
\* none is checked.
C6_Summary ==
    \A t \in Threads :
        (IsOddaj(t) /\ ReqFilled(form[t]) /\ ~AnyOffending(form[t])) =>
            /\ vnos[t] # <<>> =>
                  /\ vnos[t][6] = ExpectedSummary(form[t])
                  /\ vnos[t][6] # <<>>
                  /\ NumChecked(form[t]) > 0 =>
                        /\ Count(vnos[t][6], " (") = NumChecked(form[t])
                        /\ Count(vnos[t][6], "; ") = NumChecked(form[t]) - 1
                        /\ Count(vnos[t][6], Space) = 0
            /\ \A r \in table : r.vnos[6] = ExpectedSummary(form[t])

\* Three subjects sent in reverse catalog order, stored in catalog order.
C6_Witness ==
    \E t \in Threads : \E r \in table :
        /\ IsOddaj(t)
        /\ PlaceOf(form[t], ChkKey("ang")) < PlaceOf(form[t], ChkKey("mat"))
        /\ r.vnos[6] = <<"Matematika", " (", "K", ")", "; ", "Fizika", " (", "K", ")", "; ",
                         "Anglescina", " (", "K", ")">>

\* The dash stored for a submission with no subject checked.
C6_WitnessNone ==
    \E t \in Threads : \E r \in table :
        IsOddaj(t) /\ NumChecked(form[t]) = 0 /\ r.vnos[6] = EmDash

-----------------------------------------------------------------------------
(* Claims about the admin gate and the store (Spec) *)

Gated == {"admin_panel", "admin_delete", "export_csv"}

AdminStorePcs == {"list_connect", "list_execute", "list_close",
                  "del_connect", "del_execute", "del_commit", "del_close"}

\* C5: a listing, export or delete request runs a store function only for a
\* session that has presented the configured password and not logged out
\* since; for any other session the request is answered with the redirect to
\* the login page and the store is left as it was.
C5_AdminGate ==
    /\ [](\A t \in Threads :
             pc[t] \in AdminStorePcs =>
                 (req[t].route \in Gated /\ presented[req[t].s] = "secret"))
    /\ [][\A t \in Threads :
             (pc[t] \in Gated /\ pc'[t] # pc[t] /\ presented[req[t].s] # "secret") =>
                 /\ pc'[t] = "done"
                 /\ resp'[t] = Redirect("admin_login", <<>>)
                 /\ rows'[t] = <<>>
                 /\ UNCHANGED storeVars]_vars

\* A delete after logout, with a row in the store, answered with the redirect.
C5_Witness ==
    \E t \in Threads :
        /\ req[t].route = "admin_delete" /\ pc[t] = "done"
        /\ presented[req[t].s] = "logged_out"
        /\ \E r \in table : r.id = req[t].row_id
        /\ resp[t] = Redirect("admin_login", <<>>)

\* C7: every id a committed row gets is greater than every id given before,
\* whatever has been deleted since, and no two rows share an id.
C7_IdsNeverReused ==
    /\ [](/\ \A r, q \in table : r.id = q.id => r = q
          /\ \A r \in table : r.id \in issued)
    /\ [][\A r \in table' \ table : \A i \in issued : r.id > i]_vars

\* Row 1 was deleted while it was the newest, and the next row got id 2.
C7_Witness ==
    /\ issued = {1, 2}
    /\ {r.id : r \in table} = {2}

\* C8: once a store function has returned or raised, no connection it opened
\* is still open.
C8_ConnectionsReleased ==
    /\ leaked = 0
    /\ dbLock # -1
    /\ \A t \in Threads : pc[t] \in {"idle", "done"} => con[t] # "open"

-----------------------------------------------------------------------------
(* Claims about concurrent submissions (SpecMirror) *)

EstablishPcs == {"authorize", "open_by_key"}
WsPcs == {"ws_lookup", "ws_add", "ws_add_header", "ws_get_all", "ws_header", "append_row"}

\* C9: the cache holds nothing or a handle open_by_key returned, and so does
\* every caller of _get_spreadsheet; a call made while a handle is cached
\* takes it and starts no establishment; the cache, once filled, stays filled; a
\* failed establishment leaves the cache as it was, and a call made while it
\* is empty starts an establishment.
C9_LazyConnection ==
    /\ [](/\ gs_spread = None \/ gs_spread \in established
          /\ \A t \in Threads :
                /\ ss[t] = None \/ ss[t] \in established
                /\ pc[t] \in WsPcs => ss[t] \in established)
    /\ [][/\ gs_spread # None => gs_spread' # None
          /\ \A t \in Threads :
                /\ (pc[t] = "get_ss" /\ pc'[t] # "get_ss" /\ gs_spread # None) =>
                      (pc'[t] = "ws_lookup" /\ ss'[t] = gs_spread)
                /\ (pc[t] = "get_ss" /\ pc'[t] # "get_ss" /\ gs_spread = None) =>
                      pc'[t] = "authorize"
                /\ (pc[t] \in EstablishPcs /\ pc'[t] = "done") =>
                      gs_spread' = gs_spread]_vars

\* Two submissions raced through the establishment: both hold a handle of
\* their own, and the cache holds one of them.
C9_Witness ==
    \E t, u \in Threads :
        /\ ss[t] \in established /\ ss[u] \in established /\ ss[t] # ss[u]
        /\ gs_spread \in {ss[t], ss[u]}

\* C10: the worksheet, once it has rows, starts with the header, and holds it
\* once.
C10_HeaderOnce ==
    sheetRows # <<>> =>
        /\ sheetRows[1] = HEADERS
        /\ Cardinality({i \in 1..Len(sheetRows) : sheetRows[i] = HEADERS}) = 1

\* The same, for the duplication alone.
C10_HeaderAtMostOnce ==
    Cardinality({i \in 1..Len(sheetRows) : sheetRows[i] = HEADERS}) <= 1

====
